---- MODULE Spec2Model ----
(***************************************************************************)
(* Model of elm-solve-deps: the orchestrator (solve_deps_with,             *)
(* solve_helper), the root adapter (ProjectAdapter), the offline and       *)
(* online providers, the command line driver (run) and the PubGrub         *)
(* resolver they drive.                                                    *)
(*                                                                         *)
(* Versions are the numbers 0..MaxVersion (0 is SemVer::zero, the version  *)
(* of an application root).  A Range is the set of versions it contains.   *)
(***************************************************************************)
EXTENDS Integers, Sequences, FiniteSets, TLC

\* Highest version number any package has.
MaxVersion == 2

\* Every version a range can speak about.
AllV == 0..MaxVersion

\* Versions a published package can have.
Versions == 1..MaxVersion

\* Published packages, and the order hash iteration visits them in.
Pkgs == {"a", "b"}

PkgOrder == <<"root", "me", "a", "b">>

PkgRank(p) == CHOOSE i \in 1..Len(PkgOrder) : PkgOrder[i] = p

\* ------------------------------------------------------------------------
\* Range algebra (pubgrub::range::Range), as sets of versions.

RangeAny == AllV

RangeNone == {}

RangeExact(v) == {v}

RangeBetween(lo, hi) == {v \in AllV : lo <= v /\ v < hi}

\* The ranges a manifest can declare: "lo <= v < hi", never empty.
Intervals == {RangeBetween(lo, hi) : lo \in Versions, hi \in 2..(MaxVersion + 1)} \ {{}}

\* ------------------------------------------------------------------------
\* Terms (pubgrub::term::Term): Positive(r) or Negative(r).

Pos(r) == [pos |-> TRUE, r |-> r]

Neg(r) == [pos |-> FALSE, r |-> r]

TermAny == Neg(RangeNone)

TermEmpty == Pos(RangeNone)

TermNegate(t) == [pos |-> ~t.pos, r |-> t.r]

TermContains(t, v) == IF t.pos THEN v \in t.r ELSE v \notin t.r

TermIntersection(t1, t2) ==
    CASE t1.pos /\ t2.pos -> Pos(t1.r \cap t2.r)
      [] t1.pos /\ ~t2.pos -> Pos(t1.r \ t2.r)
      [] ~t1.pos /\ t2.pos -> Pos(t2.r \ t1.r)
      [] OTHER -> Neg(t1.r \cup t2.r)

TermUnion(t1, t2) == TermNegate(TermIntersection(TermNegate(t1), TermNegate(t2)))

TermSubsetOf(t1, t2) == t1 = TermIntersection(t1, t2)

\* Term::relation_with: how the partial solution's term for a package
\* stands to the term an incompatibility has for it.
TermRelation(t, other) ==
    LET full == TermIntersection(t, other)
    IN  IF full = other THEN "Satisfied"
        ELSE IF full = TermEmpty THEN "Contradicted"
        ELSE "Inconclusive"

\* ------------------------------------------------------------------------
\* Sequence helpers.

Last(s) == s[Len(s)]

Front(s) == SubSeq(s, 1, Len(s) - 1)

RECURSIVE Reverse(_)
Reverse(s) == IF s = <<>> THEN <<>> ELSE Append(Reverse(Tail(s)), Head(s))

RECURSIVE Ascending(_)
\* A version set in ascending order (iteration of a BTreeSet).
Ascending(S) ==
    IF S = {} THEN <<>>
    ELSE LET m == CHOOSE x \in S : \A y \in S : x <= y
         IN  <<m>> \o Ascending(S \ {m})

\* A version set in descending order.
Descending(S) == Reverse(Ascending(S))

RECURSIVE PkgSeq(_)
\* Packages in hash-iteration order.
PkgSeq(S) ==
    IF S = {} THEN <<>>
    ELSE LET m == CHOOSE x \in S : \A y \in S : PkgRank(x) <= PkgRank(y)
         IN  <<m>> \o PkgSeq(S \ {m})

\* ------------------------------------------------------------------------
\* Incompatibilities (pubgrub::internal::incompatibility): a function from
\* the packages it constrains to their terms.

NotRoot(root, rootv) == (root :> Neg(RangeExact(rootv)))

NoVersions(p, term) == (p :> term)

FromDependency(p, v, q, range) == (p :> Pos(RangeExact(v))) @@ (q :> Neg(range))

\* Incompatibility::is_terminal
IsTerminal(inc, root, rootv) ==
    \/ DOMAIN inc = {}
    \/ DOMAIN inc = {root} /\ TermContains(inc[root], rootv)

\* Incompatibility::relation against the terms T the partial solution has.
Relation(inc, T) ==
    LET rel(p) == IF p \in DOMAIN T THEN TermRelation(inc[p], T[p]) ELSE "Inconclusive"
        open == {p \in DOMAIN inc : rel(p) = "Inconclusive"}
    IN  IF \E p \in DOMAIN inc : rel(p) = "Contradicted"
        THEN [kind |-> "Contradicted", pkg |-> ""]
        ELSE IF open = {} THEN [kind |-> "Satisfied", pkg |-> ""]
        ELSE IF Cardinality(open) = 1
             THEN [kind |-> "AlmostSatisfied", pkg |-> CHOOSE p \in open : TRUE]
        ELSE [kind |-> "Inconclusive", pkg |-> ""]

\* Incompatibility::prior_cause: resolution of inc with the cause of its
\* satisfier on package p.
PriorCause(inc, cause, p) ==
    LET others == (DOMAIN inc \cup DOMAIN cause) \ {p}
        merged == [q \in others |->
                     IF q \in DOMAIN inc /\ q \in DOMAIN cause
                     THEN TermIntersection(inc[q], cause[q])
                     ELSE IF q \in DOMAIN inc THEN inc[q] ELSE cause[q]]
        t == TermUnion(inc[p], cause[p])
    IN  IF t # TermAny THEN merged @@ (p :> t) ELSE merged

\* ------------------------------------------------------------------------
\* Partial solution (pubgrub::internal::partial_solution).  rs is the
\* resolver state: store (every incompatibility allocated), index (the ids
\* merged, oldest first), pa (package assignments), level (current decision
\* level), gi (next global index).

InitState(root, rootv) ==
    [store |-> <<NotRoot(root, rootv)>>, index |-> <<1>>,
     pa |-> <<>>, level |-> 0, gi |-> 0]

\* The term the partial solution has for each assigned package.
TermsOf(rs) == [p \in DOMAIN rs.pa |-> rs.pa[p].term]

AddDecision(rs, p, v) ==
    [rs EXCEPT !.level = @ + 1,
               !.gi = @ + 1,
               !.pa[p] = [@ EXCEPT !.highest = rs.level + 1, !.dec = TRUE,
                                   !.decgi = rs.gi, !.v = v,
                                   !.term = Pos(RangeExact(v))]]

AddDerivation(rs, p, cause) ==
    LET term == TermNegate(rs.store[cause][p])
        dd == [gi |-> rs.gi, dl |-> rs.level, cause |-> cause]
        old == rs.pa[p]
        entry == IF p \in DOMAIN rs.pa
                 THEN [old EXCEPT !.highest = rs.level,
                                  !.term = TermIntersection(@, term),
                                  !.dds = Append(@, dd)]
                 ELSE [smallest |-> rs.level, highest |-> rs.level, dds |-> <<dd>>,
                       dec |-> FALSE, decgi |-> 0, v |-> 0, term |-> term]
    IN  [rs EXCEPT !.gi = @ + 1,
                   !.pa = (p :> entry) @@ @]

\* PartialSolution::potential_packages: undecided packages with a positive term.
PotentialPackages(rs) ==
    {p \in DOMAIN rs.pa : ~rs.pa[p].dec /\ rs.pa[p].term.pos}

\* PartialSolution::extract_solution
ExtractSolution(rs) ==
    [p \in {q \in DOMAIN rs.pa : rs.pa[q].dec} |-> rs.pa[p].v]

RECURSIVE FoldTerms(_, _, _)
\* The intersection of the derived terms of package p.
FoldTerms(store, dds, p) ==
    IF dds = <<>> THEN TermAny
    ELSE TermIntersection(FoldTerms(store, Front(dds), p),
                          TermNegate(store[Last(dds).cause][p]))

RECURSIVE TruncateDds(_, _)
TruncateDds(dds, level) ==
    IF dds # <<>> /\ Last(dds).dl > level THEN TruncateDds(Front(dds), level) ELSE dds

\* PartialSolution::backtrack
BacktrackPa(rs, level) ==
    LET keep == {p \in DOMAIN rs.pa : rs.pa[p].smallest <= level}
        cut(p) == LET dds == TruncateDds(rs.pa[p].dds, level)
                  IN  [smallest |-> rs.pa[p].smallest, highest |-> Last(dds).dl,
                       dds |-> dds, dec |-> FALSE, decgi |-> 0, v |-> 0,
                       term |-> FoldTerms(rs.store, dds, p)]
    IN  [p \in keep |-> IF rs.pa[p].highest <= level THEN rs.pa[p] ELSE cut(p)]

\* State::backtrack: the learned incompatibility is merged when it is new.
Backtrack(rs, incompat, changed, level) ==
    [rs EXCEPT !.level = level,
               !.pa = BacktrackPa(rs, level),
               !.index = IF changed THEN Append(@, incompat) ELSE @]

RECURSIVE SatisfierFrom(_, _, _, _, _)
\* PackageAssignments::satisfier: the first assignment of p from which the
\* accumulated term is inside incTerm; index Len(dds)+1 stands for the decision.
SatisfierFrom(rs, p, incTerm, accum, i) ==
    LET a == rs.pa[p] IN
    IF i > Len(a.dds)
    THEN [idx |-> i, gi |-> IF a.dec THEN a.decgi ELSE 0 - 1, dl |-> a.highest]
    ELSE LET acc == TermIntersection(accum, TermNegate(rs.store[a.dds[i].cause][p]))
         IN  IF TermSubsetOf(acc, incTerm)
             THEN [idx |-> i, gi |-> a.dds[i].gi, dl |-> a.dds[i].dl]
             ELSE SatisfierFrom(rs, p, incTerm, acc, i + 1)

Satisfier(rs, p, incTerm, start) == SatisfierFrom(rs, p, incTerm, start, 1)

\* PartialSolution::find_satisfier: for each package of the incompatibility,
\* the assignment that first satisfies its term.
FindSatisfier(rs, inc) == [p \in DOMAIN inc |-> Satisfier(rs, p, inc[p], TermAny)]

\* The package whose satisfier has the highest global index.
MaxGi(sat) == CHOOSE p \in DOMAIN sat : \A q \in DOMAIN sat : sat[q].gi <= sat[p].gi

AtLeastOne(n) == IF n < 1 THEN 1 ELSE n

\* PartialSolution::find_previous_satisfier: the decision level of the
\* earliest assignment that, with the satisfier of sp, satisfies inc (at least 1).
FindPreviousSatisfier(rs, inc, sat, sp) ==
    LET a == rs.pa[sp]
        accum == IF sat[sp].idx = Len(a.dds) + 1 THEN a.term
                 ELSE TermNegate(rs.store[a.dds[sat[sp].idx].cause][sp])
        sat2 == [sat EXCEPT ![sp] = Satisfier(rs, sp, inc[sp], accum)]
    IN  AtLeastOne(sat2[MaxGi(sat2)].dl)

\* The outcome of the search, given the satisfier package and the previous level.
SearchOutcome(rs, sat, sp, prevLevel) ==
    IF prevLevel < sat[sp].dl
    THEN [kind |-> "DifferentDecisionLevels", pkg |-> sp, level |-> prevLevel, cause |-> 0]
    ELSE [kind |-> "SameDecisionLevels", pkg |-> sp, level |-> 0,
          cause |-> rs.pa[sp].dds[sat[sp].idx].cause]

SearchWith(rs, inc, sat, sp) ==
    SearchOutcome(rs, sat, sp, FindPreviousSatisfier(rs, inc, sat, sp))

SearchFrom(rs, inc, sat) == SearchWith(rs, inc, sat, MaxGi(sat))

\* PartialSolution::satisfier_search
SatisfierSearch(rs, inc) == SearchFrom(rs, inc, FindSatisfier(rs, inc))

RECURSIVE ConflictResolution(_, _, _, _, _)
\* State::conflict_resolution: resolve until the conflict is almost satisfied
\* at an earlier level, or is terminal (no solution).
ConflictResolution(rs, cur, changed, root, rootv) ==
    IF IsTerminal(rs.store[cur], root, rootv)
    THEN [rs |-> rs, ok |-> FALSE, pkg |-> "", cause |-> cur]
    ELSE LET ss == SatisfierSearch(rs, rs.store[cur])
         IN  IF ss.kind = "DifferentDecisionLevels"
             THEN [rs |-> Backtrack(rs, cur, changed, ss.level), ok |-> TRUE,
                   pkg |-> ss.pkg, cause |-> cur]
             ELSE LET prior == PriorCause(rs.store[cur], rs.store[ss.cause], ss.pkg)
                      rs1 == [rs EXCEPT !.store = Append(@, prior)]
                  IN  ConflictResolution(rs1, Len(rs1.store), TRUE, root, rootv)

\* The ids of the merged incompatibilities that mention p, newest first.
IncompatsOf(rs, p) ==
    Reverse(SelectSeq(rs.index, LAMBDA id : p \in DOMAIN rs.store[id]))

RECURSIVE ScanIncompats(_, _, _)
\* The for loop of unit_propagation over the incompatibilities of one package.
ScanIncompats(rs, buffer, ids) ==
    IF ids = <<>> THEN [rs |-> rs, buffer |-> buffer, conflict |-> 0]
    ELSE LET id == Head(ids)
             rel == Relation(rs.store[id], TermsOf(rs))
         IN  CASE rel.kind = "Satisfied" -> [rs |-> rs, buffer |-> buffer, conflict |-> id]
               [] rel.kind = "AlmostSatisfied" ->
                    ScanIncompats(AddDerivation(rs, rel.pkg, id),
                                  Append(buffer, rel.pkg), Tail(ids))
               [] OTHER -> ScanIncompats(rs, buffer, Tail(ids))

RECURSIVE UnitPropagation(_, _, _, _)
\* State::unit_propagation
UnitPropagation(rs, buffer, root, rootv) ==
    IF buffer = <<>> THEN [rs |-> rs, ok |-> TRUE]
    ELSE LET cur == Last(buffer)
             r == ScanIncompats(rs, Front(buffer), IncompatsOf(rs, cur))
         IN  IF r.conflict = 0 THEN UnitPropagation(r.rs, r.buffer, root, rootv)
             ELSE LET cr == ConflictResolution(r.rs, r.conflict, FALSE, root, rootv)
                  IN  IF ~cr.ok THEN [rs |-> cr.rs, ok |-> FALSE]
                      ELSE UnitPropagation(AddDerivation(cr.rs, cr.pkg, cr.cause),
                                           <<cr.pkg>>, root, rootv)

\* State::add_incompatibility
AddIncompatibility(rs, inc) ==
    [rs EXCEPT !.store = Append(@, inc), !.index = Append(@, Len(rs.store) + 1)]

RECURSIVE AddIncompatibilities(_, _)
AddIncompatibilities(rs, incs) ==
    IF incs = <<>> THEN rs
    ELSE AddIncompatibilities(AddIncompatibility(rs, Head(incs)), Tail(incs))

\* PartialSolution::add_version: the decision is added unless one of the new
\* dependency incompatibilities would be satisfied by it.
AddVersion(rs, p, v, firstNew) ==
    LET T == (p :> Pos(RangeExact(v))) @@ TermsOf(rs)
        conflict == \E id \in firstNew..Len(rs.store) :
                       Relation(rs.store[id], T).kind = "Satisfied"
    IN  IF conflict THEN rs ELSE AddDecision(rs, p, v)

\* ------------------------------------------------------------------------
\* State.

VARIABLES
    world,          \* what the run is given: project, flags, ELM_HOME packages, registry, network
    versions_file,  \* <ELM_HOME>/pubgrub/versions_cache.json (<<>> when absent)
    elm_json_cache, \* <ELM_HOME>/pubgrub/elm_json_cache: the p@v whose elm.json is cached
    pc,             \* position of run: idle, choose, deps, fallback, done
    mode,           \* connectivity of the current invocation
    attempt,        \* the solver resolving now: offline or online
    strategy,       \* VersionStrategy of the online solver
    memo,           \* Offline.versions_cache of the current Offline instance
    online_cache,   \* Online.online_cache
    rs,             \* resolver state
    next,           \* package the next unit propagation starts from
    pending,        \* the p@v picked, whose dependencies are retrieved next
    added,          \* added_dependencies of resolve
    turns,          \* turns of the loop of resolve taken by the current resolve
    result,         \* outcome of the invocation once done
    offline_result, \* outcome of the offline attempt of the invocation
    online_result,  \* outcome of the online attempt of the invocation
    http_log,       \* HTTP requests issued by the current invocation
    delegated,      \* queries of the current resolve passed to the wrapped provider
    outcomes,       \* every resolve finished so far: solver and result
    call,           \* a call of a library function on its own: the function and its arguments
    ret             \* what that call returned

vars == <<world, versions_file, elm_json_cache, pc, mode, attempt, strategy, memo,
          online_cache, rs, next, pending, added, turns, result, offline_result,
          online_result, http_log, delegated, outcomes, call, ret>>

\* ------------------------------------------------------------------------
\* The project and its direct dependencies (solve_deps_with).

Project == world.project

IsApplication == Project.kind = "application"

\* Root package and version handed to solve_helper.
RootPkg == IF IsApplication THEN "root" ELSE Project.name

RootVersion == IF IsApplication THEN 0 ELSE Project.version

\* Collect chaining the test dependencies whatever use_test says.
CollectAlways(normal, test, useTest) == test @@ normal

\* .collect() of normal deps chained with test deps: a later pair replaces an
\* earlier one with the same key.
Collect(normal, test, useTest) == IF useTest THEN test @@ normal ELSE normal

RECURSIVE IncludeExtrasReplacing(_, _)
\* IncludeExtras with the extra range assigned instead of intersected.
IncludeExtrasReplacing(deps, extras) ==
    IF extras = <<>> THEN deps
    ELSE IncludeExtrasReplacing((Head(extras)[1] :> Head(extras)[2]) @@ deps, Tail(extras))

RECURSIVE IncludeExtras(_, _)
\* for (p, r) in additional_constraints: or_insert(any), then intersect.
IncludeExtras(deps, extras) ==
    IF extras = <<>> THEN deps
    ELSE LET p == Head(extras)[1]
             r == Head(extras)[2]
             old == IF p \in DOMAIN deps THEN deps[p] ELSE RangeAny
         IN  IncludeExtras((p :> (old \cap r)) @@ deps, Tail(extras))

\* ExactRanges taking a pin for a lower bound.
ExactRangesAtLeast(pins) == [p \in DOMAIN pins |-> {v \in AllV : v >= pins[p]}]

\* .map(|(p, v)| (p.clone(), Range::exact(*v))): each pin as the range of
\* that version alone.
ExactRanges(pins) == [p \in DOMAIN pins |-> RangeExact(pins[p])]

\* The direct-dependency map solve_deps_with hands to solve_helper.
DirectDepsOf(project, useTest, extras) ==
    IF project.kind = "application"
    THEN IncludeExtras(ExactRanges(Collect(project.direct, project.test_direct, useTest)),
                       extras)
    ELSE IncludeExtras(Collect(project.deps, project.test_deps, useTest), extras)

DirectDeps == DirectDepsOf(Project, world.use_test, world.extras)

\* SolveHelperSplit without solution.remove(root_pkg).
SolveHelperKeepRoot(solution, rootPkg, directDeps) ==
    [direct |-> [p \in {q \in DOMAIN solution : q \in DOMAIN directDeps} |-> solution[p]],
     indirect |-> [p \in {q \in DOMAIN solution : q \notin DOMAIN directDeps} |-> solution[p]]]

\* solve_helper, after resolve: drop the root, split by membership in direct_deps.
SolveHelperSplit(solution, rootPkg, directDeps) ==
    LET rest == [p \in DOMAIN solution \ {rootPkg} |-> solution[p]]
    IN  [direct |-> [p \in {q \in DOMAIN rest : q \in DOMAIN directDeps} |-> rest[p]],
         indirect |-> [p \in {q \in DOMAIN rest : q \notin DOMAIN directDeps} |-> rest[p]]]

\* ------------------------------------------------------------------------
\* Results.

Ok(split) == [kind |-> "Ok", direct |-> split.direct, indirect |-> split.indirect,
              pkg |-> "", v |-> 0, dependent |-> ""]

Err(kind, p, v, q) == [kind |-> kind, direct |-> <<>>, indirect |-> <<>>,
                      pkg |-> p, v |-> v, dependent |-> q]

NoResult == Err("none", "", 0, "")

\* ------------------------------------------------------------------------
\* The file system and the package server.

\* elm.json of a published package version: its dependencies.
Manifest(p, v) ==
    IF v = 1 \/ world.dep[p].on = "" THEN <<>>
    ELSE (world.dep[p].on :> world.dep[p].range)

\* ListInstalledVersions listing every version, installed or not.
ListEveryVersion(p) == IF p \in Pkgs THEN Versions ELSE {}

\* Cache::list_installed_versions: the version directories of p in ELM_HOME;
\* a missing directory gives the empty set.
ListInstalledVersions(p) == IF p \in Pkgs THEN world.installed[p] ELSE {}

\* PkgVersion::load_config: the installed elm.json, readable and parseable.
LoadConfigOk(p, v) ==
    IF p \in Pkgs THEN v \in world.installed[p] /\ <<p, v>> \notin world.broken
    ELSE world.root_source = "installed"

\* PkgVersion::load_from_cache
LoadFromCacheOk(cache, p, v) == <<p, v>> \in cache

\* The package server answers a request for the elm.json of p@v.
RemoteHas(p, v) == IF p \in Pkgs THEN v \in world.registry[p] ELSE TRUE

HttpOk == world.net = "up"

\* http_fetch answers a request to this endpoint: the network is up, or only
\* the full listing of the package server is out of reach.
Answers(url) == HttpOk \/ (world.net = "partial" /\ url # "all-packages")

Request(url, p, n) == [url |-> url, pkg |-> p, n |-> n]

\* PkgVersion::fetch_config: the request, then the response written to the
\* cache file of p@v, then parsed; a failed request or a failed write is the
\* error returned.
FetchConfig(cache, p, v) ==
    IF ~(Answers("elm.json") /\ RemoteHas(p, v)) \/ <<p, v>> \in world.unwritable
    THEN [ok |-> FALSE, http |-> <<Request("elm.json", p, v)>>, cache |-> cache,
          source |-> "none"]
    ELSE [ok |-> TRUE, http |-> <<Request("elm.json", p, v)>>,
          cache |-> cache \cup {<<p, v>>}, source |-> "remote"]

\* FetchChain reading the cache before the installed elm.json.
FetchChainCacheFirst(cache, p, v) ==
    IF LoadFromCacheOk(cache, p, v)
    THEN [ok |-> TRUE, http |-> <<>>, cache |-> cache, source |-> "cache"]
    ELSE IF LoadConfigOk(p, v)
    THEN [ok |-> TRUE, http |-> <<>>, cache |-> cache, source |-> "installed"]
    ELSE FetchConfig(cache, p, v)

\* FetchChain keeping no copy of what it fetched.
FetchChainUnwritten(cache, p, v) ==
    IF LoadConfigOk(p, v)
    THEN [ok |-> TRUE, http |-> <<>>, cache |-> cache, source |-> "installed"]
    ELSE IF LoadFromCacheOk(cache, p, v)
    THEN [ok |-> TRUE, http |-> <<>>, cache |-> cache, source |-> "cache"]
    ELSE [FetchConfig(cache, p, v) EXCEPT !.cache = cache]

\* PkgVersion::load_config .or_else load_from_cache .or_else fetch_config, as
\* Online::fetch_elm_json and run chain them: ok, the requests made, the cache
\* after, and where the elm.json came from.
FetchChain(cache, p, v) ==
    IF LoadConfigOk(p, v)
    THEN [ok |-> TRUE, http |-> <<>>, cache |-> cache, source |-> "installed"]
    ELSE IF LoadFromCacheOk(cache, p, v)
    THEN [ok |-> TRUE, http |-> <<>>, cache |-> cache, source |-> "cache"]
    ELSE FetchConfig(cache, p, v)

\* GET <remote>/all-packages
AllPackages == [p \in {q \in Pkgs : world.registry[q] # {}} |-> world.registry[p]]

RECURSIVE LogOf(_)
\* The registry's publication history, oldest first.
LogOf(ps) ==
    IF ps = <<>> THEN <<>>
    ELSE LET p == Head(ps)
             vs == Ascending(world.registry[p])
         IN  [i \in 1..Len(vs) |-> <<p, vs[i]>>] \o LogOf(Tail(ps))

RegistryLog == LogOf(PkgSeq(Pkgs))

\* GET <remote>/all-packages/since/<k>: newest first.
Since(k) == Reverse(SubSeq(RegistryLog, k + 1, Len(RegistryLog)))

RECURSIVE SumVersions(_, _)
SumVersions(cache, ps) ==
    IF ps = {} THEN 0
    ELSE LET p == CHOOSE q \in ps : TRUE
         IN  Cardinality(cache[p]) + SumVersions(cache, ps \ {p})

RECURSIVE InsertAllOverwriting(_, _)
\* InsertAll putting each version in place of the versions of its package.
InsertAllOverwriting(cache, pvs) ==
    IF pvs = <<>> THEN cache
    ELSE InsertAllOverwriting((Head(pvs)[1] :> {Head(pvs)[2]}) @@ cache, Tail(pvs))

RECURSIVE InsertAll(_, _)
\* Register every package version of a list in the cache.
InsertAll(cache, pvs) ==
    IF pvs = <<>> THEN cache
    ELSE LET p == Head(pvs)[1]
             v == Head(pvs)[2]
             old == IF p \in DOMAIN cache THEN cache[p] ELSE {}
         IN  InsertAll((p :> (old \cup {v})) @@ cache, Tail(pvs))

\* Cache::from_remote_all_pkg: the listing, or the FetchError of its request.
FromRemoteAllPkg(log) ==
    IF Answers("all-packages")
    THEN [ok |-> TRUE, cache |-> AllPackages, http |-> Append(log, Request("all-packages", "", 0)),
          error |-> Request("", "", 0)]
    ELSE [ok |-> FALSE, cache |-> <<>>, http |-> Append(log, Request("all-packages", "", 0)),
          error |-> Request("all-packages", "", 0)]

\* Replace keeping what was cached next to the listing.
ReplaceMerging(cache, fetched) ==
    IF fetched.ok
    THEN [fetched EXCEPT !.cache = [p \in DOMAIN cache \cup DOMAIN fetched.cache |->
                (IF p \in DOMAIN cache THEN cache[p] ELSE {})
                \cup (IF p \in DOMAIN fetched.cache THEN fetched.cache[p] ELSE {})]]
    ELSE [fetched EXCEPT !.cache = cache]

\* Replace emptying the cache before the listing is fetched.
ReplaceClearing(cache, fetched) == fetched

\* *self = Self::from_remote_all_pkg(..)?: the cache is replaced by the listing,
\* and left as it was when the request fails.
Replace(cache, fetched) ==
    IF fetched.ok THEN fetched ELSE [fetched EXCEPT !.cache = cache]

\* CacheUpdate looking for the package of the last entry, not for its version.
CacheUpdateByPackage(cache) ==
    IF DOMAIN cache = {} THEN Replace(cache, FromRemoteAllPkg(<<>>))
    ELSE LET count == SumVersions(cache, DOMAIN cache)
             k == (IF count > 1 THEN count ELSE 1) - 1
             log == <<Request("since", "", k)>>
             resp == Since(k)
         IN  IF ~Answers("since")
             THEN [ok |-> FALSE, cache |-> cache, http |-> log, error |-> Request("since", "", k)]
             ELSE IF resp = <<>> THEN Replace(cache, FromRemoteAllPkg(log))
             ELSE IF Last(resp)[1] \in DOMAIN cache
                  THEN [ok |-> TRUE, cache |-> InsertAll(cache, Front(resp)), http |-> log,
                        error |-> Request("", "", 0)]
                  ELSE Replace(cache, FromRemoteAllPkg(log))

\* Cache::update: the cache afterwards, the requests made, and the request
\* the FetchError names when one failed.
CacheUpdate(cache) ==
    IF DOMAIN cache = {} THEN Replace(cache, FromRemoteAllPkg(<<>>))
    ELSE LET count == SumVersions(cache, DOMAIN cache)
             k == (IF count > 1 THEN count ELSE 1) - 1
             log == <<Request("since", "", k)>>
             resp == Since(k)
         IN  IF ~Answers("since")
             THEN [ok |-> FALSE, cache |-> cache, http |-> log, error |-> Request("since", "", k)]
             ELSE IF resp = <<>> THEN Replace(cache, FromRemoteAllPkg(log))
             ELSE LET last == Last(resp)
                  IN  IF last[1] \in DOMAIN cache /\ last[2] \in cache[last[1]]
                      THEN [ok |-> TRUE, cache |-> InsertAll(cache, Front(resp)), http |-> log,
                            error |-> Request("", "", 0)]
                      ELSE Replace(cache, FromRemoteAllPkg(log))

\* Cache::load(..).unwrap_or_else(|_| Cache::new()): an absent file gives an
\* empty cache.
CacheLoad(file) == file

\* OnlineNew without online_cache.save.
OnlineNewUnsaved(file) ==
    LET u == CacheUpdate(CacheLoad(file))
    IN  [ok |-> u.ok, cache |-> u.cache, file |-> file, http |-> u.http, error |-> u.error]

\* Online::new: load the versions cache, update it, save it; the solver holds
\* the updated cache.  A failed update returns before the save.
OnlineNewFrom(file) ==
    LET u == CacheUpdate(CacheLoad(file))
    IN  [ok |-> u.ok, cache |-> u.cache, file |-> IF u.ok THEN u.cache ELSE file,
         http |-> u.http, error |-> u.error]

OnlineNew == OnlineNewFrom(versions_file)

\* ------------------------------------------------------------------------
\* Providers.

\* LoadInstalledVersionsOf listing as the set iterates, oldest first.
LoadInstalledVersionsOfAscending(m, p) ==
    IF p \in DOMAIN m THEN [versions |-> Ascending(m[p]), memo |-> m, scans |-> <<>>]
    ELSE LET vs == ListInstalledVersions(p)
         IN  [versions |-> Ascending(vs), memo |-> (p :> vs) @@ m, scans |-> <<p>>]

\* LoadInstalledVersionsOf reading the directory at every call.
LoadInstalledVersionsOfRescanning(m, p) ==
    LET vs == ListInstalledVersions(p)
    IN  [versions |-> Descending(vs), memo |-> (p :> vs) @@ m, scans |-> <<p>>]

\* Offline::load_installed_versions_of: the memoized listing of p, newest
\* first, the memo afterwards, and the directory scanned if one was.
LoadInstalledVersionsOf(m, p) ==
    IF p \in DOMAIN m THEN [versions |-> Descending(m[p]), memo |-> m, scans |-> <<>>]
    ELSE LET vs == ListInstalledVersions(p)
         IN  [versions |-> Descending(vs), memo |-> (p :> vs) @@ m, scans |-> <<p>>]

RECURSIVE MemoAfter(_, _)
\* The memo once every package of ps has been listed.
MemoAfter(m, ps) ==
    IF ps = <<>> THEN m
    ELSE MemoAfter(LoadInstalledVersionsOf(m, Head(ps)).memo, Tail(ps))

RECURSIVE ScansAfter(_, _)
\* The directories scanned while the packages of ps are listed in turn.
ScansAfter(m, ps) ==
    IF ps = <<>> THEN <<>>
    ELSE LoadInstalledVersionsOf(m, Head(ps)).scans
         \o ScansAfter(LoadInstalledVersionsOf(m, Head(ps)).memo, Tail(ps))

\* Online::list_available_versions
OnlineListAvailableVersions(m, oc, strat, p) ==
    LET local == IF p \in DOMAIN m THEN m[p] ELSE {}
        online == IF p \in DOMAIN oc THEN oc[p] ELSE {}
        all == local \cup online
    IN  IF strat = "Oldest" THEN Ascending(all) ELSE Descending(all)

\* The list_available_versions closure of the solver resolving now.
ListAvailableVersions(m, p) ==
    IF attempt = "offline" THEN LoadInstalledVersionsOf(m, p).versions
    ELSE OnlineListAvailableVersions(m, online_cache, strategy, p)

\* pubgrub::solver::choose_package_with_fewest_versions over the candidate
\* sequence pot of <<package, range>>, with the listing of each package.
ChoosePackageWithFewestVersions(pot, m) ==
    LET valid(i) == SelectSeq(ListAvailableVersions(m, pot[i][1]), LAMBDA v : v \in pot[i][2])
        best == CHOOSE i \in 1..Len(pot) :
                   \A j \in 1..Len(pot) :
                      \/ Len(valid(i)) < Len(valid(j))
                      \/ Len(valid(i)) = Len(valid(j)) /\ i <= j
    IN  [pkg |-> pot[best][1], some |-> valid(best) # <<>>,
         v |-> IF valid(best) # <<>> THEN Head(valid(best)) ELSE 0]

\* Solver::choose_package_version: every candidate is listed (the offline
\* closure memoizes each), then the pick is made and the package picked is
\* listed once more.
SolverChoosePackageVersion(pot) ==
    LET pkgs == [i \in 1..Len(pot) |-> pot[i][1]]
        m1 == IF attempt = "offline" THEN MemoAfter(memo, pkgs) ELSE memo
        pick == ChoosePackageWithFewestVersions(pot, m1)
    IN  [pkg |-> pick.pkg, some |-> pick.some, v |-> pick.v, memo |-> m1, delegated |-> 1,
         scans |-> IF attempt = "offline" THEN ScansAfter(memo, Append(pkgs, pick.pkg))
                   ELSE <<>>]

\* AdapterChoosePackageVersion answering with the root whatever the first
\* candidate is.
AdapterChoosePackageVersionAlwaysRoot(pot) ==
    [pkg |-> RootPkg, some |-> TRUE, v |-> RootVersion, memo |-> memo, delegated |-> 0,
     scans |-> <<>>]

\* ProjectAdapter::choose_package_version: the root is pinned, anything else
\* goes to the wrapped provider with the whole candidate sequence.
AdapterChoosePackageVersion(pot) ==
    IF Head(pot)[1] = RootPkg
    THEN [pkg |-> RootPkg, some |-> TRUE, v |-> RootVersion, memo |-> memo, delegated |-> 0,
          scans |-> <<>>]
    ELSE SolverChoosePackageVersion(pot)

\* The fetch_elm_json closure: Offline reads the installed elm.json;
\* Online::fetch_elm_json tries installed, cached, then the package server.
FetchElmJson(p, v) ==
    IF attempt = "offline"
    THEN [ok |-> LoadConfigOk(p, v), http |-> <<>>, cache |-> elm_json_cache]
    ELSE FetchChain(elm_json_cache, p, v)

\* SolverGetDependencies with the dependencies of the elm.json left out.
SolverGetDependenciesNoDeps(p, v) ==
    LET f == FetchElmJson(p, v)
    IN  [ok |-> f.ok, deps |-> <<>>, http |-> f.http, cache |-> f.cache, delegated |-> 1]

\* SolverGetDependencies with a failed retrieval taken for an elm.json
\* without dependencies.
SolverGetDependenciesSwallow(p, v) ==
    LET f == FetchElmJson(p, v)
    IN  [ok |-> TRUE, deps |-> IF f.ok THEN Manifest(p, v) ELSE <<>>,
         http |-> f.http, cache |-> f.cache, delegated |-> 1]

\* Solver::get_dependencies: the dependencies of the retrieved elm.json.
SolverGetDependencies(p, v) ==
    LET f == FetchElmJson(p, v)
    IN  [ok |-> f.ok, deps |-> IF f.ok THEN Manifest(p, v) ELSE <<>>,
         http |-> f.http, cache |-> f.cache, delegated |-> 1]

\* AdapterGetDependencies passing every query to the wrapped provider.
AdapterGetDependenciesDelegating(p, v) == SolverGetDependencies(p, v)

\* ProjectAdapter::get_dependencies
AdapterGetDependencies(p, v) ==
    IF p = RootPkg
    THEN [ok |-> TRUE, deps |-> DirectDeps, http |-> <<>>, cache |-> elm_json_cache,
          delegated |-> 0]
    ELSE SolverGetDependencies(p, v)

\* ------------------------------------------------------------------------
\* The worlds a behaviour can start in.

NoDep == [on |-> "", range |-> {}]

\* What the versions above 1 of a package can depend on: nothing, or the
\* other package within an interval.
DepChoices(other) == {NoDep} \cup {[on |-> other, range |-> r] : r \in Intervals}

\* Version sets 1..k: what is installed, what is published.
Prefixes == {1..k : k \in 0..MaxVersion}

PackageProject(deps) ==
    [kind |-> "package", name |-> "me", version |-> 1, direct |-> <<>>, indirect |-> <<>>,
     test_direct |-> <<>>, deps |-> deps, test_deps |-> <<>>]

ApplicationProject(direct) ==
    [kind |-> "application", name |-> "", version |-> 0, direct |-> direct, indirect |-> <<>>,
     test_direct |-> <<>>, deps |-> <<>>, test_deps |-> <<>>]

\* Dependency maps of the root: on a, or on a and b.
RootDepMaps ==
    {("a" :> ra) : ra \in Intervals}
    \cup {("a" :> ra) @@ ("b" :> rb) : ra \in Intervals, rb \in {Versions, {1}}}

BaseWorld ==
    [project |-> PackageProject(("a" :> Versions)), use_test |-> FALSE, extras |-> <<>>,
     installed |-> [p \in Pkgs |-> Versions], broken |-> {},
     registry |-> [p \in Pkgs |-> Versions], net |-> "up",
     dep |-> [p \in Pkgs |-> NoDep], root_source |-> "file", unwritable |-> {}]

\* Everything installed and published; the dependency graph and the root vary.
SearchWorlds ==
    {[BaseWorld EXCEPT !.project = PackageProject(d), !.dep = ("a" :> da) @@ ("b" :> db)] :
        d \in RootDepMaps, da \in DepChoices("b"), db \in DepChoices("a")}

\* What is installed and what is published vary.
AvailabilityWorlds ==
    {[BaseWorld EXCEPT !.project = PackageProject(d),
                       !.installed = ("a" :> ia) @@ ("b" :> ib),
                       !.registry = ("a" :> ra) @@ ("b" :> rb),
                       !.dep = ("a" :> da) @@ ("b" :> NoDep)] :
        d \in {("a" :> r) : r \in Intervals} \cup {("a" :> Versions) @@ ("b" :> Versions)},
        ia \in Prefixes, ib \in Prefixes, ra \in Prefixes, rb \in Prefixes,
        da \in {NoDep, [on |-> "b", range |-> Versions]}}

\* An application with pins, extras, unreadable installed manifests, the
\* network down, and a package named on the command line.
ExtraChoices == {<<>>} \cup {<<<<p, r>>>> : p \in Pkgs, r \in Intervals}

FaultWorlds ==
    {[BaseWorld EXCEPT !.project = ApplicationProject(("a" :> va)),
                       !.extras = e, !.broken = b,
                       !.registry = ("a" :> ra) @@ ("b" :> Versions),
                       !.dep = ("a" :> [on |-> "b", range |-> Versions]) @@ ("b" :> NoDep)] :
        va \in Versions, e \in ExtraChoices, b \in {{}, {<<"a", MaxVersion>>}, {<<"b", 1>>}},
        ra \in {Versions, 1..(MaxVersion - 1)}}
    \cup {[BaseWorld EXCEPT !.root_source = src, !.net = n,
                            !.installed = ("a" :> ia) @@ ("b" :> Versions)] :
            src \in {"file", "installed", "remote"}, n \in {"up", "down"}, ia \in Prefixes}

Worlds == SearchWorlds \cup AvailabilityWorlds \cup FaultWorlds

\* An application elm.json with its direct and indirect pins.
ApplicationWith(direct, indirect) ==
    [ApplicationProject(direct) EXCEPT !.indirect = indirect]

\* Applications pinning a directly and, or not, b indirectly; a above 1
\* depends on b or on nothing; any set of versions of b is installed.
ReproductionWorlds ==
    {[BaseWorld EXCEPT !.project = ApplicationWith(("a" :> va), ind),
                       !.installed = ("a" :> ia) @@ ("b" :> ib),
                       !.dep = ("a" :> da) @@ ("b" :> NoDep)] :
        va \in Versions, ind \in {<<>>} \cup {("b" :> vb) : vb \in Versions},
        da \in DepChoices("b"), ia \in {Versions, {}} \cup {{v} : v \in Versions},
        ib \in SUBSET Versions}

\* The package server with any history, reachable, unreachable, or with its
\* full listing out of reach.
CacheWorlds ==
    {[BaseWorld EXCEPT !.registry = ("a" :> ra) @@ ("b" :> rb), !.net = n,
                       !.installed = ("a" :> ia) @@ ("b" :> Versions)] :
        ra \in Prefixes, rb \in Prefixes, n \in {"up", "down", "partial"},
        ia \in {Versions, {}}}

\* What versions_cache.json can hold when an invocation starts: nothing, or
\* for some packages an earlier state of the registry, or a version since
\* withdrawn.
CacheFiles ==
    LET sets == Prefixes \cup {{MaxVersion}}
    IN  {<<>>} \cup {("a" :> x) : x \in sets} \cup {("b" :> x) : x \in sets}
        \cup {("a" :> x) @@ ("b" :> y) : x \in sets, y \in sets}

\* ------------------------------------------------------------------------
\* Initial state and actions.

\* No library function called on its own.
NoCall == [op |-> "none"]

\* Nothing has run yet.
Quiet ==
    /\ elm_json_cache = {}
    /\ pc = "idle"
    /\ mode = ""
    /\ attempt = ""
    /\ strategy = ""
    /\ memo = <<>>
    /\ online_cache = <<>>
    /\ rs = InitState("", 0)
    /\ next = ""
    /\ pending = <<"", 0>>
    /\ added = {}
    /\ turns = 0
    /\ result = NoResult
    /\ offline_result = NoResult
    /\ online_result = NoResult
    /\ http_log = <<>>
    /\ delegated = 0
    /\ outcomes = {}

\* The command line about to be invoked for the first time.
Fresh == Quiet /\ call = NoCall /\ ret = NoCall

Init ==
    /\ world \in Worlds
    /\ versions_file = <<>>
    /\ Fresh

\* The solver whose resolve is running: offline, Newest or Oldest.
SolverName == IF attempt = "offline" THEN "offline" ELSE strategy

\* run, loading the project: ./elm.json, or the elm.json of the package named
\* on the command line (installed, else cached, else fetched).
LoadProject ==
    IF world.root_source = "file" THEN [ok |-> TRUE, http |-> <<>>, cache |-> elm_json_cache]
    ELSE FetchChain(elm_json_cache, Project.name, Project.version)

\* solve_deps_with and solve_helper up to the call of resolve.
StartResolve ==
    /\ rs' = InitState(RootPkg, RootVersion)
    /\ next' = RootPkg
    /\ pending' = <<"", 0>>
    /\ added' = {}
    /\ turns' = 0
    /\ delegated' = 0
    /\ pc' = "choose"

NoResolve ==
    /\ UNCHANGED <<rs, next, pending, added, turns, delegated>>
    /\ pc' = "done"

\* An invocation starts when none is running; any number follow one another
\* on the same ELM_HOME.
CanRun == pc \in {"idle", "done"}

\* run with --offline, or with no connectivity flag (progressive).
RunOffline(m) ==
    /\ CanRun
    /\ m \in {"offline", "progressive"}
    /\ \E l \in {LoadProject} :
       /\ http_log' = l.http
       /\ elm_json_cache' = l.cache
       /\ IF l.ok THEN StartResolve /\ result' = NoResult
          ELSE NoResolve /\ result' = Err("LoadError", "", 0, "")
    /\ mode' = m
    /\ attempt' = "offline"
    /\ strategy' = "Newest"
    /\ memo' = <<>>
    /\ online_cache' = <<>>
    /\ offline_result' = NoResult
    /\ online_result' = NoResult
    /\ UNCHANGED <<call, ret, world, versions_file, outcomes>>

\* run with --online-newest or --online-oldest.
RunOnline(strat) ==
    /\ CanRun
    /\ \E l \in {LoadProject} : \E o \in {OnlineNew} :
           /\ elm_json_cache' = l.cache
           /\ IF ~l.ok
              THEN /\ NoResolve
                   /\ result' = Err("LoadError", "", 0, "")
                   /\ http_log' = l.http
                   /\ UNCHANGED <<versions_file, online_cache>>
              ELSE IF ~o.ok
              THEN /\ NoResolve
                   /\ result' = Err("OnlineInitError", "", 0, "")
                   /\ http_log' = l.http \o o.http
                   /\ UNCHANGED <<versions_file, online_cache>>
              ELSE /\ StartResolve
                   /\ result' = NoResult
                   /\ http_log' = l.http \o o.http
                   /\ versions_file' = o.file
                   /\ online_cache' = o.cache
    /\ mode' = "online"
    /\ attempt' = "online"
    /\ strategy' = strat
    /\ memo' = <<>>
    /\ offline_result' = NoResult
    /\ online_result' = NoResult
    /\ UNCHANGED <<call, ret, world, outcomes>>

\* run, progressive: the offline attempt failed, the online solver is built
\* around the same Offline instance and resolves with Newest.
SwitchOnline ==
    /\ pc = "fallback"
    /\ \E o \in {OnlineNew} :
       /\ http_log' = http_log \o o.http
       /\ IF ~o.ok
          THEN /\ NoResolve
               /\ result' = Err("OnlineInitError", "", 0, "")
               /\ UNCHANGED <<versions_file, online_cache>>
          ELSE /\ StartResolve
               /\ result' = NoResult
               /\ versions_file' = o.file
               /\ online_cache' = o.cache
    /\ attempt' = "online"
    /\ UNCHANGED <<call, ret, world, elm_json_cache, mode, strategy, memo, offline_result,
                   online_result, outcomes>>

\* FallsBack switching to online after every offline attempt.
FallsBackAlways(m, res) == m = "progressive"

\* FallsBack switching to online only when the offline attempt found no solution.
FallsBackOnNoSolution(m, res) == m = "progressive" /\ res.kind = "NoSolution"

\* run, after the offline attempt: .or_else switches to online on any error,
\* in progressive mode only.
FallsBack(m, res) == m = "progressive" /\ res.kind # "Ok"

\* The resolve returns res: Offline::solve_deps / Online::solve_deps return
\* to run, which falls back to online after a failed offline attempt in
\* progressive mode and otherwise ends.
EndResolve(res) ==
    /\ outcomes' = outcomes \cup {[solver |-> SolverName, cache |-> online_cache,
                                   result |-> res]}
    /\ IF attempt = "offline"
       THEN /\ offline_result' = res
            /\ online_result' = online_result
            /\ IF FallsBack(mode, res)
               THEN pc' = "fallback" /\ result' = NoResult
               ELSE pc' = "done" /\ result' = res
       ELSE /\ offline_result' = offline_result
            /\ online_result' = res
            /\ pc' = "done"
            /\ result' = res

\* The turns of the loop a resolve is followed for: a decision, a package
\* without version or a new set of dependencies for each package version,
\* once per package and the root.
MaxTurns == (Cardinality(Pkgs) * MaxVersion + 1) * (Cardinality(Pkgs) + 2)

\* PartialSolution::potential_packages as the sequence of <<package, range>>
\* choose_package_version receives.
Candidates(st) ==
    LET pot == PkgSeq(PotentialPackages(st))
    IN  [i \in 1..Len(pot) |-> <<pot[i], st.pa[pot[i]].term.r>>]

\* One turn of the loop of resolve up to the pick: unit propagation, then the
\* solution when nothing is left to decide, else choose_package_version.
ChooseVersion ==
    /\ pc = "choose"
    /\ turns <= MaxTurns
    /\ turns' = turns + 1
    /\ \E up \in {UnitPropagation(rs, <<next>>, RootPkg, RootVersion)} :
       \E cands \in {Candidates(up.rs)} :
           IF ~up.ok
           THEN /\ EndResolve(Err("NoSolution", "", 0, ""))
                /\ rs' = up.rs
                /\ UNCHANGED <<next, pending, added, memo, delegated>>
           ELSE IF cands = <<>>
           THEN /\ EndResolve(Ok(SolveHelperSplit(ExtractSolution(up.rs), RootPkg, DirectDeps)))
                /\ rs' = up.rs
                /\ UNCHANGED <<next, pending, added, memo, delegated>>
           ELSE \E d \in {AdapterChoosePackageVersion(cands)} :
                LET known == d.pkg \in DOMAIN up.rs.pa
                    term == IF known THEN up.rs.pa[d.pkg].term ELSE TermEmpty
                IN  /\ memo' = d.memo
                    /\ delegated' = delegated + d.delegated
                    /\ next' = d.pkg
                    /\ IF ~known
                       THEN /\ EndResolve(Err("Failure", d.pkg, 0, ""))
                            /\ rs' = up.rs
                            /\ UNCHANGED <<pending, added>>
                       ELSE IF ~d.some
                       THEN /\ rs' = AddIncompatibility(up.rs, NoVersions(d.pkg, term))
                            /\ UNCHANGED <<pending, added, pc, result, offline_result, online_result, outcomes>>
                       ELSE IF ~TermContains(term, d.v)
                       THEN /\ EndResolve(Err("ErrorChoosingPackageVersion", d.pkg, d.v, ""))
                            /\ rs' = up.rs
                            /\ UNCHANGED <<pending, added>>
                       ELSE IF <<d.pkg, d.v>> \notin added
                       THEN /\ rs' = up.rs
                            /\ pending' = <<d.pkg, d.v>>
                            /\ added' = added \cup {<<d.pkg, d.v>>}
                            /\ pc' = "deps"
                            /\ UNCHANGED <<result, offline_result, online_result, outcomes>>
                       ELSE /\ rs' = AddDecision(up.rs, d.pkg, d.v)
                            /\ UNCHANGED <<pending, added, pc, result, offline_result, online_result, outcomes>>
    /\ UNCHANGED <<call, ret, world, versions_file, elm_json_cache, mode, attempt, strategy,
                   online_cache, http_log>>

\* Incompatibility::from_dependency for every dependency of p@v.
DependencyIncompatibilities(p, v, deps) ==
    LET qs == PkgSeq(DOMAIN deps)
    IN  [i \in 1..Len(qs) |-> FromDependency(p, v, qs[i], deps[qs[i]])]

\* The rest of the turn: get_dependencies of the pick, its dependencies as
\* incompatibilities, and the decision.
RetrieveDependencies ==
    /\ pc = "deps"
    /\ \E g \in {AdapterGetDependencies(pending[1], pending[2])} :
       \E incs \in {DependencyIncompatibilities(pending[1], pending[2], g.deps)} :
       LET p == pending[1]
           v == pending[2]
           empty == {q \in DOMAIN g.deps : g.deps[q] = RangeNone}
       IN  /\ http_log' = http_log \o g.http
           /\ elm_json_cache' = g.cache
           /\ delegated' = delegated + g.delegated
           /\ IF ~g.ok
              THEN EndResolve(Err("ErrorRetrievingDependencies", p, v, "")) /\ rs' = rs
              ELSE IF p \in DOMAIN g.deps
              THEN EndResolve(Err("SelfDependency", p, v, "")) /\ rs' = rs
              ELSE IF empty # {}
              THEN /\ EndResolve(Err("DependencyOnTheEmptySet", p, v, Head(PkgSeq(empty))))
                   /\ rs' = rs
              ELSE IF \E i \in 1..Len(incs) : IsTerminal(incs[i], RootPkg, RootVersion)
              THEN EndResolve(Err("Failure", p, v, "")) /\ rs' = AddIncompatibilities(rs, incs)
              ELSE /\ rs' = AddVersion(AddIncompatibilities(rs, incs), p, v, Len(rs.store) + 1)
                   /\ pc' = "choose"
                   /\ UNCHANGED <<result, offline_result, online_result, outcomes>>
    /\ pending' = <<"", 0>>
    /\ UNCHANGED <<call, ret, world, versions_file, mode, attempt, strategy, memo, online_cache,
                   next, added, turns>>

Next ==
    \/ \E m \in {"offline", "progressive"} : RunOffline(m)
    \/ \E strat \in {"Newest", "Oldest"} : RunOnline(strat)
    \/ SwitchOnline
    \/ ChooseVersion
    \/ RetrieveDependencies

Spec == Init /\ [][Next]_vars

\* The same program started on an ELM_HOME that already has a versions cache,
\* or on an application with indirect pins.
EnvInit ==
    /\ \/ world \in ReproductionWorlds /\ versions_file = <<>>
       \/ world \in CacheWorlds /\ versions_file \in CacheFiles
    /\ Fresh

EnvSpec == EnvInit /\ [][Next]_vars

\* ------------------------------------------------------------------------
\* Properties.

\* A successful result as one map.
Output(res) == res.direct @@ res.indirect

Max(S) == CHOOSE x \in S : \A y \in S : y <= x

Min(S) == CHOOSE x \in S : \A y \in S : x <= y

\* The direct dependencies the project declares, before the extras.
Declared == DirectDepsOf(Project, world.use_test, <<>>)

\* C1 - Solution validity: in the output of every successful resolve, every
\* dependency (q, R) of the root and of every resolved p@v has an entry
\* (q, u) with u in R.
SolutionValidity ==
    \A o \in outcomes :
        o.result.kind = "Ok" =>
            /\ \A q \in DOMAIN DirectDeps :
                  q \in DOMAIN Output(o.result) /\ Output(o.result)[q] \in DirectDeps[q]
            /\ \A p \in DOMAIN Output(o.result) :
                  \A q \in DOMAIN Manifest(p, Output(o.result)[p]) :
                     /\ q \in DOMAIN Output(o.result)
                     /\ Output(o.result)[q] \in Manifest(p, Output(o.result)[p])[q]

\* C1 witness: a resolve succeeded with a package version that has
\* dependencies of its own.
SolutionValidityWitness ==
    \E o \in outcomes :
        /\ o.result.kind = "Ok"
        /\ \E p \in DOMAIN Output(o.result) : Manifest(p, Output(o.result)[p]) # <<>>

\* C2 - Directness: on success the root is absent from the output, direct
\* and indirect share no key, together they are the resolver's assignment
\* minus the root, and the keys of direct are the keys of the direct-dependency
\* map.
Directness ==
    (pc = "done" /\ result.kind = "Ok") =>
        /\ RootPkg \notin DOMAIN result.direct \cup DOMAIN result.indirect
        /\ DOMAIN result.direct \cap DOMAIN result.indirect = {}
        /\ Output(result) = [p \in DOMAIN ExtractSolution(rs) \ {RootPkg} |->
                                ExtractSolution(rs)[p]]
        /\ DOMAIN result.direct = DOMAIN DirectDeps

\* C2 witness: a success with both a direct and an indirect dependency.
DirectnessWitness ==
    /\ pc = "done"
    /\ result.kind = "Ok"
    /\ result.direct # <<>>
    /\ result.indirect # <<>>
    /\ RootPkg \in DOMAIN ExtractSolution(rs)

\* C3 - Termination: a resolve never loops forever: it ends within MaxTurns
\* turns of its loop, with a total assignment (no package left to decide) or
\* with an error.
Termination ==
    /\ turns <= MaxTurns
    /\ pc = "done" => result.kind # "none"
    /\ (pc = "done" /\ result.kind = "Ok") => PotentialPackages(rs) = {}
    /\ (pc = "done" /\ result.kind = "NoSolution") =>
          \E id \in 1..Len(rs.store) : IsTerminal(rs.store[id], RootPkg, RootVersion)

\* C3 witness: an offline resolve ended with a solution after the newest
\* installed version its range admits was ruled out by a conflict.
TerminationWitness ==
    /\ pc = "done"
    /\ attempt = "offline"
    /\ result.kind = "Ok"
    /\ "a" \in DOMAIN result.direct
    /\ \E v \in world.installed["a"] \cap DirectDeps["a"] : v > result.direct["a"]

\* C4 - Determinism: two resolves of the same project, flags, extras,
\* installed packages, strategy and versions-cache contents return the same
\* result.
Determinism ==
    \A o1, o2 \in outcomes :
        (o1.solver = o2.solver /\ o1.cache = o2.cache) =>
            /\ o1.result.kind = o2.result.kind
            /\ o1.result.direct = o2.result.direct
            /\ o1.result.indirect = o2.result.indirect

\* The scenario of C5: the root requires one package without dependencies,
\* no version of it is installed, the registry has one in range and answers.
MissingLocallyPresentRemotely(p) ==
    /\ world.root_source = "file"
    /\ HttpOk
    /\ DOMAIN DirectDeps = {p}
    /\ \A v \in Versions : Manifest(p, v) = <<>>
    /\ world.installed[p] = {}
    /\ world.registry[p] \cap DirectDeps[p] # {}

OfflineNoNetwork == mode = "offline" => http_log = <<>>

\* The scenario of C7: the root requires only p, and no version of p has
\* dependencies; everything is readable and the network answers.
SingleLeafDependency(p) ==
    /\ world.root_source = "file"
    /\ HttpOk
    /\ world.broken = {}
    /\ DOMAIN DirectDeps = {p}
    /\ \A v \in Versions : Manifest(p, v) = <<>>

\* The versions of p that exist, installed or published, within the root's range.
AvailableInRange(p) == (world.installed[p] \cup world.registry[p]) \cap DirectDeps[p]

\* C7 - Version strategy end to end: with a single dependency p without
\* dependencies, online-newest returns the highest available version in range
\* and online-oldest the lowest, p in direct, indirect empty.
VersionStrategyEndToEnd ==
    \A o \in outcomes : \A p \in Pkgs :
        (o.solver \in {"Newest", "Oldest"} /\ SingleLeafDependency(p)
            /\ AvailableInRange(p) # {}) =>
            /\ o.result.kind = "Ok"
            /\ o.result.indirect = <<>>
            /\ o.result.direct = (p :> IF o.solver = "Newest" THEN Max(AvailableInRange(p))
                                       ELSE Min(AvailableInRange(p)))

\* The versions of p a solver can use: the installed ones offline, the
\* installed and the published ones online.
Available(solver, p) ==
    IF solver = "offline" THEN world.installed[p]
    ELSE world.installed[p] \cup world.registry[p]

\* A package the root requires has no available version in the required range.
NoVersionInRange(solver) ==
    \E p \in DOMAIN DirectDeps : Available(solver, p) \cap DirectDeps[p] = {}

\* C8 - No version in range gives NoSolution, when no range the root requires
\* is empty: the resolve fails with NoSolution and no other kind.
NoVersionGivesNoSolution ==
    \A o \in outcomes :
        (NoVersionInRange(o.solver) /\ \A p \in DOMAIN DirectDeps : DirectDeps[p] # RangeNone)
            => o.result.kind = "NoSolution"

\* C8 witness: an offline resolve failed with NoSolution for a package with
\* no installed version.
NoVersionWitness ==
    \E o \in outcomes :
        /\ o.solver = "offline"
        /\ o.result.kind = "NoSolution"
        /\ \E p \in DOMAIN DirectDeps : world.installed[p] = {} /\ DirectDeps[p] # RangeNone

\* C8 as stated: whatever the required range, no available version in it
\* gives NoSolution.
NoVersionAnyRange ==
    \A o \in outcomes : NoVersionInRange(o.solver) => o.result.kind = "NoSolution"

\* An extra constraint excludes every version the project declares for the
\* same package.
ExtraExcludesDeclared ==
    \E i \in 1..Len(world.extras) :
        /\ world.extras[i][1] \in DOMAIN Declared
        /\ Declared[world.extras[i][1]] \cap world.extras[i][2] = {}

\* C9 - Empty-set extras: the resolve fails with the dependency-on-empty-set
\* kind, reported for the root, and no version listing and no manifest
\* retrieval is performed for any package.
EmptySetExtras ==
    ExtraExcludesDeclared =>
        /\ delegated = 0
        /\ memo = <<>>
        /\ elm_json_cache = {}
        /\ \A i \in 1..Len(http_log) : http_log[i].url # "elm.json"
        /\ \A o \in outcomes :
              /\ o.result.kind = "DependencyOnTheEmptySet"
              /\ o.result.pkg = RootPkg
              /\ o.result.v = RootVersion
              /\ DirectDeps[o.result.dependent] = RangeNone

\* C9 witness: an invocation ended on the empty intersection of a pin and an extra.
EmptySetExtrasWitness ==
    /\ ExtraExcludesDeclared
    /\ pc = "done"
    /\ result.kind = "DependencyOnTheEmptySet"

\* C10 - Dependency retrieval failure is terminal: when the elm.json of the
\* picked p@v cannot be retrieved, that step ends the resolve with
\* ErrorRetrievingDependencies carrying p and v.
RetrievalFailureTerminal ==
    [][(pc = "deps" /\ pending[1] # RootPkg /\ ~FetchElmJson(pending[1], pending[2]).ok) =>
          /\ pc' \in {"done", "fallback"}
          /\ (IF attempt = "offline" THEN offline_result' ELSE online_result')
                = Err("ErrorRetrievingDependencies", pending[1], pending[2], "")
          /\ delegated' = delegated + 1
          /\ rs' = rs]_vars

\* C10 witness: an invocation ended on the unreadable elm.json of a package.
RetrievalFailureWitness ==
    /\ pc = "done"
    /\ result.kind = "ErrorRetrievingDependencies"
    /\ result.pkg \in Pkgs
    /\ <<result.pkg, result.v>> \in world.broken

\* ------------------------------------------------------------------------
\* The library functions called on their own.

\* Everything run works on.
run_vars == <<world, versions_file, elm_json_cache, pc, mode, attempt, strategy, memo,
              online_cache, rs, next, pending, added, turns, result, offline_result,
              online_result, http_log, delegated, outcomes>>

\* Maps from some of the keys to the values.
PartialMaps(keys, vals) == UNION {[d -> vals] : d \in SUBSET keys}

\* Extras of a call: none, one, or two about the same package.
ExtraLists ==
    {<<>>} \cup {<<<<p, r>>>> : p \in Pkgs, r \in Intervals}
    \cup {<<<<"a", r1>>, <<"a", r2>>>> : r1 \in Intervals, r2 \in Intervals}

\* Calls of solve_deps_with: applications and packages whose test
\* dependencies may name a package the normal ones name.
SolveCalls ==
    {[op |-> "solve_deps_with", use_test |-> u, extras |-> e,
      project |-> [ApplicationWith(d, i) EXCEPT !.test_direct = t]] :
        u \in BOOLEAN, e \in ExtraLists, d \in PartialMaps(Pkgs, Versions),
        i \in {<<>>, ("b" :> 1)}, t \in PartialMaps({"a"}, Versions)}
    \cup {[op |-> "solve_deps_with", use_test |-> u, extras |-> e,
           project |-> [PackageProject(d) EXCEPT !.test_deps = t]] :
        u \in BOOLEAN, e \in ExtraLists, d \in PartialMaps(Pkgs, Intervals),
        t \in PartialMaps({"a"}, Intervals)}

\* solve_deps_with up to solve_helper: the direct-dependency map that the
\* adapter returns as the dependencies of the root.
SolveDepsWith ==
    /\ call.op = "solve_deps_with"
    /\ ret.op = "none"
    /\ ret' = [op |-> "solve_deps_with",
               deps |-> DirectDepsOf(call.project, call.use_test, call.extras)]
    /\ UNCHANGED <<call, run_vars>>

\* ------------------------------------------------------------------------
\* Constraint::from_str, over versions written major.minor.patch.

\* Highest patch number a constraint text names.
MaxPatch == 1

\* The versions a parsed range is asked about.
SemVers == {<<major, minor, patch>> : major \in 1..2, minor \in 0..1, patch \in 0..(MaxPatch + 1)}

\* Order of SemanticVersion: lexicographic on (major, minor, patch).
SemVerLess(x, y) ==
    \/ x[1] < y[1]
    \/ x[1] = y[1] /\ x[2] < y[2]
    \/ x[1] = y[1] /\ x[2] = y[2] /\ x[3] < y[3]

BumpPatch(v) == <<v[1], v[2], v[3] + 1>>

HigherThan(v) == {x \in SemVers : ~SemVerLess(x, v)}

StrictlyLowerThan(v) == {x \in SemVers : SemVerLess(x, v)}

\* A token of a text split at white space: a word, or numbers joined by dots.
Word(w) == [word |-> w, parts |-> <<>>]

Dotted(ns) == [word |-> "", parts |-> ns]

\* SemanticVersion::from_str: three numbers joined by dots.
SemVerFromStr(tok) ==
    IF tok.word = "" /\ Len(tok.parts) = 3 THEN [ok |-> TRUE, v |-> tok.parts]
    ELSE [ok |-> FALSE, v |-> <<0, 0, 0>>]

ParseError(kind) == [ok |-> FALSE, error |-> kind, range |-> {}]

\* range1 of from_str
LowerBound(sep1, v1) ==
    IF sep1 = "<=" THEN HigherThan(v1) ELSE HigherThan(BumpPatch(v1))

\* UpperBound taking "<=" for "<".
UpperBoundExclusive(sep2, v2) == StrictlyLowerThan(v2)

\* range2 of from_str
UpperBound(sep2, v2) ==
    IF sep2 = "<" THEN StrictlyLowerThan(v2) ELSE StrictlyLowerThan(BumpPatch(v2))

\* Constraint::from_str on the tokens of the text.
ConstraintFromStr(parts) ==
    IF Len(parts) # 5 THEN ParseError("InvalidFormat")
    ELSE LET v1 == SemVerFromStr(parts[1])
             v2 == SemVerFromStr(parts[5])
             sep1 == parts[2].word
             sep2 == parts[4].word
         IN  IF ~v1.ok \/ ~v2.ok THEN ParseError("InvalidVersion")
             ELSE IF sep1 # "<=" /\ sep1 # "<" THEN ParseError("InvalidSeparator")
             ELSE IF sep2 # "<=" /\ sep2 # "<" THEN ParseError("InvalidSeparator")
             ELSE [ok |-> TRUE, error |-> "",
                   range |-> LowerBound(sep1, v1.v) \cap UpperBound(sep2, v2.v)]

\* Texts handed to from_str: five tokens with good and bad versions,
\* separators and middle tokens, and the same with a token less or more.
EndTokens ==
    {Dotted(<<1, 0, patch>>) : patch \in 0..MaxPatch} \cup {Dotted(<<1, 1, 0>>), Dotted(<<1, 0>>)}

FiveTokens ==
    {<<lo, s1, mid, s2, hi>> : lo \in EndTokens, hi \in EndTokens,
        s1 \in {Word("<"), Word("<="), Word("=")}, s2 \in {Word("<"), Word("<="), Word("=")},
        mid \in {Word("v"), Word("x")}}

Texts ==
    FiveTokens \cup {SubSeq(t, 1, 4) : t \in FiveTokens}
    \cup {Append(t, Word("v")) : t \in FiveTokens} \cup {<<>>}

ParseCalls == {[op |-> "from_str", text |-> t] : t \in Texts}

\* s.parse::<Constraint>()
FromStr ==
    /\ call.op = "from_str"
    /\ ret.op = "none"
    /\ \E c \in {ConstraintFromStr(call.text)} :
          ret' = [op |-> "from_str", ok |-> c.ok, error |-> c.error, range |-> c.range]
    /\ UNCHANGED <<call, run_vars>>

\* ------------------------------------------------------------------------
\* ProjectAdapter::new

PkgNew(author, pkg) == [author |-> author, pkg |-> pkg]

\* ProjectAdapterNew refusing every package of the author elm.
ProjectAdapterNewAnyElm(pkg_id, version, direct_deps, deps_provider) ==
    IF pkg_id.author = "elm"
    THEN [panicked |-> TRUE, pkg_id |-> PkgNew("", ""), version |-> 0, direct_deps |-> <<>>,
          deps_provider |-> ""]
    ELSE [panicked |-> FALSE, pkg_id |-> pkg_id, version |-> version,
          direct_deps |-> direct_deps, deps_provider |-> deps_provider]

\* ProjectAdapter::new: panics on the root id "elm", else the adapter with
\* the four fields as given.
ProjectAdapterNew(pkg_id, version, direct_deps, deps_provider) ==
    IF pkg_id = PkgNew("elm", "")
    THEN [panicked |-> TRUE, pkg_id |-> PkgNew("", ""), version |-> 0, direct_deps |-> <<>>,
          deps_provider |-> ""]
    ELSE [panicked |-> FALSE, pkg_id |-> pkg_id, version |-> version,
          direct_deps |-> direct_deps, deps_provider |-> deps_provider]

NewCalls ==
    {[op |-> "new", pkg_id |-> PkgNew(a, n), version |-> v, direct_deps |-> d,
      deps_provider |-> dp] :
        a \in {"elm", "root", "author"}, n \in {"", "core"}, v \in AllV,
        d \in PartialMaps(Pkgs, {Versions, {1}}), dp \in {"offline", "online"}}

\* ProjectAdapter::new(pkg_id, version, &direct_deps, &deps_provider)
NewAdapter ==
    /\ call.op = "new"
    /\ ret.op = "none"
    /\ \E a \in {ProjectAdapterNew(call.pkg_id, call.version, call.direct_deps,
                                     call.deps_provider)} :
          ret' = [op |-> "new", panicked |-> a.panicked, pkg_id |-> a.pkg_id,
                  version |-> a.version, direct_deps |-> a.direct_deps,
                  deps_provider |-> a.deps_provider]
    /\ UNCHANGED <<call, run_vars>>

\* ------------------------------------------------------------------------
\* The library specification: one call of one function.

\* ------------------------------------------------------------------------
\* Online::fetch_elm_json

\* ELM_HOME and the package server as a retrieval can find them: a installed
\* or not, its elm.json readable or not, published or not, the network up or
\* down, the cache directory of a version writable or not.
FetchWorlds ==
    {[BaseWorld EXCEPT !.installed = ("a" :> ia) @@ ("b" :> Versions), !.broken = bk,
                       !.registry = ("a" :> ra) @@ ("b" :> Versions), !.net = n,
                       !.unwritable = uw, !.dep = ("a" :> da) @@ ("b" :> NoDep)] :
        ia \in Prefixes, bk \in {{}, {<<"a", 1>>}}, ra \in Prefixes, n \in {"up", "down"},
        uw \in {{}, {<<"a", 1>>}}, da \in {NoDep, [on |-> "b", range |-> Versions]}}

\* Retrievals of a version of a, with any manifests of a in the cache.
FetchCalls ==
    {[op |-> "fetch_elm_json", pkg |-> "a", version |-> v, cache |-> c] :
        v \in Versions, c \in SUBSET ({"a"} \X Versions)}

\* self.fetch_elm_json(pkg, version), then the dependencies of the elm.json
\* as Solver::get_dependencies returns them.
OnlineFetchElmJson ==
    /\ call.op = "fetch_elm_json"
    /\ ret.op = "none"
    /\ \E f \in {FetchChain(call.cache, call.pkg, call.version)} :
          ret' = [op |-> "fetch_elm_json", ok |-> f.ok, http |-> f.http, cache |-> f.cache,
                  source |-> f.source,
                  deps |-> IF f.ok THEN Manifest(call.pkg, call.version) ELSE <<>>]
    /\ UNCHANGED <<call, run_vars>>

LibInit ==
    /\ \/ world = BaseWorld /\ call \in SolveCalls \cup ParseCalls \cup NewCalls
       \/ world \in FetchWorlds /\ call \in FetchCalls
    /\ versions_file = <<>>
    /\ Quiet
    /\ ret = NoCall

LibNext == SolveDepsWith \/ FromStr \/ NewAdapter \/ OnlineFetchElmJson

LibSpec == LibInit /\ [][LibNext]_vars

\* ------------------------------------------------------------------------
\* Application reproduction.

\* The pins of the application manifest, direct and indirect.
Pins == Project.direct @@ Project.indirect

\* The scenario of C11: an application without extras whose pins are closed
\* under dependency and all installed with a readable elm.json.
ClosedInstalledApplication ==
    /\ IsApplication
    /\ world.extras = <<>>
    /\ ~world.use_test
    /\ DOMAIN Project.direct \cap DOMAIN Project.indirect = {}
    /\ \A p \in DOMAIN Pins :
          /\ Pins[p] \in world.installed[p]
          /\ <<p, Pins[p]>> \notin world.broken
          /\ \A q \in DOMAIN Manifest(p, Pins[p]) :
                q \in DOMAIN Pins /\ Pins[q] \in Manifest(p, Pins[p])[q]

\* Every indirect pin is a dependency of some pinned package, and its pinned
\* version is the only one installed.
IndirectPinsForced ==
    \A q \in DOMAIN Project.indirect :
        /\ \E p \in DOMAIN Pins : q \in DOMAIN Manifest(p, Pins[p])
        /\ world.installed[q] = {Project.indirect[q]}

\* An offline resolve returned the manifest's own split.
Reproduced(o) ==
    /\ o.result.kind = "Ok"
    /\ o.result.direct = Project.direct
    /\ o.result.indirect = Project.indirect

ExtrasOn(p) ==
    {v \in AllV : \A i \in 1..Len(call.extras) :
        call.extras[i][1] = p => v \in call.extras[i][2]}

ExtraPkgs == {call.extras[i][1] : i \in 1..Len(call.extras)}

\* The ranges the root of the call declares: normal ones, and test ones when
\* use_test is true; a pin of an application is the range of its version.
NormalRanges ==
    IF call.project.kind = "application"
    THEN [p \in DOMAIN call.project.direct |-> {call.project.direct[p]}]
    ELSE call.project.deps

TestRanges ==
    IF ~call.use_test THEN <<>>
    ELSE IF call.project.kind = "application"
    THEN [p \in DOMAIN call.project.test_direct |-> {call.project.test_direct[p]}]
    ELSE call.project.test_deps

SolvedApplication == ret.op = "solve_deps_with" /\ call.project.kind = "application"

\* The map holds the pin of every direct and counted test dependency, cut by
\* the extras, the extras alone for the other packages, and nothing else.
PinsThenExtras ==
    /\ DOMAIN ret.deps = DOMAIN NormalRanges \cup DOMAIN TestRanges \cup ExtraPkgs
    /\ \A p \in DOMAIN NormalRanges : ret.deps[p] = NormalRanges[p] \cap ExtrasOn(p)
    /\ \A p \in DOMAIN TestRanges : ret.deps[p] = TestRanges[p] \cap ExtrasOn(p)
    /\ \A p \in ExtraPkgs \ (DOMAIN NormalRanges \cup DOMAIN TestRanges) :
          ret.deps[p] = ExtrasOn(p)

\* No package is pinned at two versions by the direct and the counted test
\* dependencies.
PinsAgree ==
    \A p \in DOMAIN NormalRanges \cap DOMAIN TestRanges : NormalRanges[p] = TestRanges[p]

SingleIntersectedRange ==
    ret.op = "solve_deps_with" =>
        /\ DOMAIN ret.deps = DOMAIN NormalRanges \cup DOMAIN TestRanges \cup ExtraPkgs
        /\ \A p \in DOMAIN ret.deps :
              ret.deps[p] = (IF p \in DOMAIN NormalRanges THEN NormalRanges[p] ELSE AllV)
                            \cap (IF p \in DOMAIN TestRanges THEN TestRanges[p] ELSE AllV)
                            \cap ExtrasOn(p)

\* ------------------------------------------------------------------------
\* Constraints.

\* C14 - Constraint bound semantics: the range parsed from "v1 OP1 v OP2 v2"
\* contains x exactly when v1 <= x (OP1 is <=) or v1 < x (OP1 is <), and
\* x < v2 (OP2 is <) or x <= v2 (OP2 is <=).
ConstraintBoundSemantics ==
    (ret.op = "from_str" /\ ret.ok) =>
        LET v1 == call.text[1].parts
            v2 == call.text[5].parts
            op1 == call.text[2].word
            op2 == call.text[4].word
        IN  \A x \in SemVers :
                x \in ret.range <=>
                    /\ IF op1 = "<=" THEN ~SemVerLess(x, v1) ELSE SemVerLess(v1, x)
                    /\ IF op2 = "<" THEN SemVerLess(x, v2) ELSE ~SemVerLess(v2, x)

\* C14 witness: "1.0.0 <= v <= 1.0.0" parsed to the range of 1.0.0 alone.
ConstraintBoundWitness ==
    /\ ret.op = "from_str"
    /\ ret.ok
    /\ call.text[1] = call.text[5]
    /\ call.text[2].word = "<="
    /\ call.text[4].word = "<="
    /\ ret.range = {call.text[1].parts}

\* A text of the shape V1 SEP1 v SEP2 V2.
WellFormed(t) ==
    /\ Len(t) = 5
    /\ SemVerFromStr(t[1]).ok
    /\ SemVerFromStr(t[5]).ok
    /\ t[2].word \in {"<", "<="}
    /\ t[4].word \in {"<", "<="}
    /\ t[3] = Word("v")

\* C15 - Constraint text format: a text parses if and only if it has the
\* shape V1 SEP1 v SEP2 V2; a wrong token count is an invalid format, and the
\* other rejections are an invalid separator or an invalid version.
ConstraintTextFormat ==
    ret.op = "from_str" =>
        /\ ret.ok <=> WellFormed(call.text)
        /\ Len(call.text) # 5 => ret.error = "InvalidFormat"
        /\ (Len(call.text) = 5 /\ ~ret.ok) => ret.error \in {"InvalidSeparator", "InvalidVersion"}

\* ------------------------------------------------------------------------
\* The root adapter.

\* C16 - Root guard: construction fails if and only if the root id is the
\* compiler id (author elm, empty name); otherwise the adapter holds the id,
\* version, direct-dependency map and provider it was given.
RootGuard ==
    ret.op = "new" =>
        /\ ret.panicked <=> call.pkg_id = PkgNew("elm", "")
        /\ ~ret.panicked =>
              /\ ret.pkg_id = call.pkg_id
              /\ ret.version = call.version
              /\ ret.direct_deps = call.direct_deps
              /\ ret.deps_provider = call.deps_provider

\* C16 witness: an adapter built for a package of the author elm with a name.
RootGuardWitness ==
    /\ ret.op = "new"
    /\ ~ret.panicked
    /\ call.pkg_id.author = "elm"
    /\ call.direct_deps # <<>>

\* ------------------------------------------------------------------------
\* The versions cache.

\* This step constructs an online solver: run with an --online flag once the
\* project is loaded, or the fallback of progressive mode.
ConstructsOnline ==
    \/ pc = "fallback"
    \/ CanRun /\ mode' = "online" /\ LoadProject.ok

\* The requests of the versions-cache update among those of the invocation.
UpdateRequests(log) == SelectSeq(log, LAMBDA r : r.url \in {"all-packages", "since"})

\* N, the number of versions in the persisted cache.
CachedCount == SumVersions(versions_file, DOMAIN versions_file)

\* C17 - Versions cache is persisted after update: when construction of the
\* online solver succeeds, the file and the solver hold the cache the update
\* produced, and no step of a resolve modifies either.
CachePersisted ==
    [][((ConstructsOnline /\ pc' = "choose") =>
            (online_cache' = CacheUpdate(versions_file).cache /\ versions_file' = online_cache'))
       /\ (pc \in {"choose", "deps"} =>
            (online_cache' = online_cache /\ versions_file' = versions_file))]_vars

\* C17 witness: an online resolve ended on a cache the update extended from
\* the file it found, and the file holds that cache.
CachePersistedWitness ==
    /\ pc = "done"
    /\ attempt = "online"
    /\ result.kind = "Ok"
    /\ UpdateRequests(http_log) # <<>>
    /\ \A i \in 1..Len(UpdateRequests(http_log)) : UpdateRequests(http_log)[i].url = "since"
    /\ online_cache # <<>>
    /\ versions_file = online_cache

\* C18 - Fetch failure during update aborts construction: the invocation
\* ends with the error naming the request that failed, no resolve starts, the
\* file is left as it was and the cache passed to update is unchanged.
FetchFailureAborts ==
    [][(ConstructsOnline /\ ~OnlineNew.ok) =>
          /\ pc' = "done"
          /\ result'.kind = "OnlineInitError"
          /\ OnlineNew.error = Last(OnlineNew.http)
          /\ OnlineNew.error.url \in {"all-packages", "since"}
          /\ UpdateRequests(http_log') = OnlineNew.http
          /\ rs' = rs
          /\ outcomes' = outcomes
          /\ versions_file' = versions_file
          /\ OnlineNew.cache = CacheLoad(versions_file)]_vars

\* C18 witness: construction failed on the full listing, after the since
\* request was answered for a cache that was not empty.
FetchFailureWitness ==
    /\ pc = "done"
    /\ result.kind = "OnlineInitError"
    /\ Len(UpdateRequests(http_log)) = 2
    /\ CachedCount > 0

\* C19 - First request of the versions-cache update: all-packages, the cache
\* being replaced by the response, when N = 0, and since/<max(N-1, 0)>
\* otherwise.
FirstUpdateRequest ==
    [][ConstructsOnline =>
          IF CachedCount = 0
          THEN /\ Head(UpdateRequests(http_log')) = Request("all-packages", "", 0)
               /\ pc' = "choose" => online_cache' = AllPackages
          ELSE Head(UpdateRequests(http_log')) = Request("since", "", CachedCount - 1)]_vars

\* The since request is answered with nothing, or with a list whose last
\* entry is not in the cache.
Shrunk ==
    /\ DOMAIN versions_file # {}
    /\ Answers("since")
    /\ LET resp == Since((IF CachedCount > 1 THEN CachedCount ELSE 1) - 1)
       IN  \/ resp = <<>>
           \/ Last(resp)[1] \notin DOMAIN versions_file
           \/ Last(resp)[2] \notin versions_file[Last(resp)[1]]

\* C20 - Full refetch on shrink: the update then requests all-packages, and
\* when that is answered the cache is the full listing exactly.
FullRefetchOnShrink ==
    [][(ConstructsOnline /\ Shrunk) =>
          /\ Len(UpdateRequests(http_log')) = 2
          /\ UpdateRequests(http_log')[2] = Request("all-packages", "", 0)
          /\ Answers("all-packages") =>
                /\ pc' = "choose"
                /\ online_cache' = AllPackages
                /\ versions_file' = AllPackages]_vars

\* C20 witness: an online solver built on the full listing fetched after a
\* since request, the registry having fewer versions than can be cached.
FullRefetchWitness ==
    /\ attempt = "online"
    /\ pc = "choose"
    /\ Len(UpdateRequests(http_log)) = 2
    /\ UpdateRequests(http_log)[1].n > 0
    /\ online_cache = AllPackages
    /\ \E p \in Pkgs : world.registry[p] # Versions

\* The since request of the update, for the persisted cache.
SinceIndex == (IF CachedCount > 1 THEN CachedCount ELSE 1) - 1

\* The since request is answered with a list whose last entry is in the cache.
Contiguous ==
    /\ DOMAIN versions_file # {}
    /\ Answers("since")
    /\ Since(SinceIndex) # <<>>
    /\ Last(Since(SinceIndex))[1] \in DOMAIN versions_file
    /\ Last(Since(SinceIndex))[2] \in versions_file[Last(Since(SinceIndex))[1]]

\* A cache united with the entries of a list.
United(cache, pvs) ==
    LET listed == {pvs[i] : i \in DOMAIN pvs}
    IN  [p \in DOMAIN cache \cup {pv[1] : pv \in listed} |->
            (IF p \in DOMAIN cache THEN cache[p] ELSE {})
            \cup {pv[2] : pv \in {x \in listed : x[1] = p}}]

\* C21 - Contiguous incremental update: the since request is the only one of
\* the update, and the cache afterwards is the old cache united with every
\* entry of the response but the last; nothing is removed.
ContiguousUpdate ==
    [][(ConstructsOnline /\ Contiguous) =>
          /\ UpdateRequests(http_log') = <<Request("since", "", SinceIndex)>>
          /\ pc' = "choose"
          /\ online_cache' = United(versions_file, Front(Since(SinceIndex)))
          /\ \A p \in DOMAIN versions_file :
                p \in DOMAIN online_cache' /\ versions_file[p] \subseteq online_cache'[p]]_vars

\* C21 witness: an online solver built after the one request since/0, on a
\* cache where a package got a second version and another its key.
ContiguousUpdateWitness ==
    /\ attempt = "online"
    /\ pc = "choose"
    /\ UpdateRequests(http_log) = <<Request("since", "", 0)>>
    /\ \E p \in DOMAIN online_cache : Cardinality(online_cache[p]) > 1
    /\ Cardinality(DOMAIN online_cache) > 1

\* The package versions a cache holds.
Entries(cache) == {pv \in (DOMAIN cache) \X AllV : pv[2] \in cache[pv[1]]}

\* The package versions the registry has now.
Registered == {RegistryLog[i] : i \in DOMAIN RegistryLog}

\* The persisted cache was the registry at some earlier time, and the
\* registry has since only lost versions and got new ones appended to its
\* history: what both hold is the start of the history, and what the cache
\* lacks comes after it.
SyncedEarlier ==
    \E j \in 0..Len(RegistryLog) :
        /\ \A i \in 1..j : RegistryLog[i] \in Entries(versions_file)
        /\ \A i \in (j + 1)..Len(RegistryLog) : RegistryLog[i] \notin Entries(versions_file)

\* C22 - Update converges to the registry: under that assumption, after a
\* successful update the cache holds exactly the versions the registry has.
UpdateConverges ==
    [][(ConstructsOnline /\ SyncedEarlier /\ pc' = "choose") =>
          (Entries(online_cache') = Registered /\ Entries(versions_file') = Registered)]_vars

\* C22 witness: the cache of an online solver is the registry after a since
\* request answered with versions, none of them the one the cache ended on:
\* a version was deleted and others were published.
UpdateConvergesWitness ==
    /\ attempt = "online"
    /\ pc = "choose"
    /\ Len(UpdateRequests(http_log)) = 2
    /\ UpdateRequests(http_log)[1].n > 0
    /\ Len(RegistryLog) > UpdateRequests(http_log)[1].n
    /\ Entries(online_cache) = Registered

\* ------------------------------------------------------------------------
\* Manifest retrieval of the remote provider.

\* The retrieval of p@v a call made has returned.
Retrieved == call.op = "fetch_elm_json" /\ ret.op = "fetch_elm_json"

Wanted == <<call.pkg, call.version>>

WriteFails ==
    /\ ~LoadConfigOk(call.pkg, call.version)
    /\ Wanted \notin call.cache
    /\ Answers("elm.json") /\ RemoteHas(call.pkg, call.version)
    /\ Wanted \in world.unwritable

\* C24 - Manifest-cache writes are best-effort: the dependencies of the
\* fetched manifest are returned although it could not be written.
BestEffortCacheWrite ==
    (Retrieved /\ WriteFails) => (ret.ok /\ ret.deps = Manifest(call.pkg, call.version))

\* ------------------------------------------------------------------------
\* Candidate listing of the remote provider.

\* The versions of p in the remote versions cache of the online solver.
CachedVersions(p) == IF p \in DOMAIN online_cache THEN online_cache[p] ELSE {}

\* C25 - Candidate listing of the remote provider: throughout an online
\* resolve the versions listed for a package are its installed versions
\* united with its cached remote versions, newest first for Newest and oldest
\* first for Oldest.
OnlineCandidateListing ==
    (attempt = "online" /\ pc \in {"choose", "deps"}) =>
        \A p \in Pkgs :
            ListAvailableVersions(memo, p) =
                IF strategy = "Oldest"
                THEN Ascending(ListInstalledVersions(p) \cup CachedVersions(p))
                ELSE Descending(ListInstalledVersions(p) \cup CachedVersions(p))

\* ------------------------------------------------------------------------
\* choose_package_version of the providers.

\* The candidates a turn of the loop passes to choose_package_version.
Asked == Candidates(UnitPropagation(rs, <<next>>, RootPkg, RootVersion).rs)

\* The turn asks the wrapped provider.
ProviderAsked == pc = "choose" /\ delegated' = delegated + 1

\* The versions the provider of the running resolve has for p: the local
\* store, or what the remote provider knows locally and remotely.
Listed(p) ==
    IF attempt = "offline" THEN ListInstalledVersions(p)
    ELSE (IF p \in DOMAIN memo THEN memo[p] ELSE {}) \cup CachedVersions(p)

\* The listed versions of the i-th candidate that lie in its range.
InRange(cands, i) == Listed(cands[i][1]) \cap cands[i][2]

\* The first of a set of versions in listing order.
FirstListed(S) == IF SolverName = "Oldest" THEN Min(S) ELSE Max(S)

\* C26 - choose_package_version policy: the package returned is a candidate
\* with the fewest listed versions in its range; the version is the first in
\* listing order within the range, the highest for the local store and for
\* Newest and the lowest for Oldest, or none when the range has no version.
ChoicePolicy ==
    [][ProviderAsked =>
          \E i \in 1..Len(Asked) :
              /\ next' = Asked[i][1]
              /\ \A j \in 1..Len(Asked) :
                    Cardinality(InRange(Asked, i)) <= Cardinality(InRange(Asked, j))
              /\ SolverChoosePackageVersion(Asked).pkg = next'
              /\ SolverChoosePackageVersion(Asked).some <=> InRange(Asked, i) # {}
              /\ InRange(Asked, i) # {} =>
                    /\ SolverChoosePackageVersion(Asked).v = FirstListed(InRange(Asked, i))
                    /\ pc' = "deps" => pending' = <<next', FirstListed(InRange(Asked, i))>>
              /\ InRange(Asked, i) = {} => (pc' = "choose" /\ pending' = pending)]_vars

\* C26 witness: of two candidates the local-store provider picked the
\* second, which has a version in its range and fewer than the first.
ChoicePolicyWitness ==
    /\ pc = "deps"
    /\ attempt = "offline"
    /\ Len(Candidates(rs)) = 2
    /\ pending[1] = Candidates(rs)[2][1]
    /\ InRange(Candidates(rs), 2) # {}
    /\ Cardinality(InRange(Candidates(rs), 2)) < Cardinality(InRange(Candidates(rs), 1))
    /\ pending[2] = Max(InRange(Candidates(rs), 2))

\* ------------------------------------------------------------------------
\* The root adapter.

\* The packages among the candidates of a turn.
AskedPkgs == {Asked[i][1] : i \in DOMAIN Asked}

\* The turn reaches choose_package_version of the adapter.
AdapterAsked ==
    /\ pc = "choose"
    /\ UnitPropagation(rs, <<next>>, RootPkg, RootVersion).ok
    /\ Asked # <<>>

\* C27 - Root adapter: with the root as first candidate the adapter answers
\* (root, root version) itself, and the dependencies of the root are the
\* direct-dependency map, the wrapped provider not being called; any other
\* query goes to the wrapped provider with all the candidates, or the package
\* and version, and its answer is returned unchanged; the wrapped provider is
\* never asked about the root.
RootAdapter ==
    [][/\ (AdapterAsked /\ Head(Asked)[1] = RootPkg) =>
            /\ delegated' = delegated
            /\ memo' = memo
            /\ next' = RootPkg
            /\ pc' = "deps" => pending' = <<RootPkg, RootVersion>>
       /\ (AdapterAsked /\ Head(Asked)[1] # RootPkg) =>
            /\ delegated' = delegated + 1
            /\ RootPkg \notin AskedPkgs
            /\ AdapterChoosePackageVersion(Asked) = SolverChoosePackageVersion(Asked)
            /\ next' = SolverChoosePackageVersion(Asked).pkg
            /\ memo' = SolverChoosePackageVersion(Asked).memo
       /\ (pc = "deps" /\ pending[1] = RootPkg) =>
            /\ delegated' = delegated
            /\ pending[2] = RootVersion
            /\ AdapterGetDependencies(RootPkg, RootVersion).deps = DirectDeps
            /\ http_log' = http_log
            /\ elm_json_cache' = elm_json_cache
       /\ (pc = "deps" /\ pending[1] # RootPkg) =>
            /\ delegated' = delegated + 1
            /\ AdapterGetDependencies(pending[1], pending[2])
                  = SolverGetDependencies(pending[1], pending[2])
            /\ http_log' = http_log \o SolverGetDependencies(pending[1], pending[2]).http
            /\ elm_json_cache' = SolverGetDependencies(pending[1], pending[2]).cache]_vars

\* C27 witness: the root is decided at its version, and the wrapped provider
\* has since been asked twice, for a pick and for its dependencies.
RootAdapterWitness ==
    /\ pc = "choose"
    /\ RootPkg \in DOMAIN rs.pa
    /\ rs.pa[RootPkg].dec
    /\ rs.pa[RootPkg].v = RootVersion
    /\ DirectDeps # <<>>
    /\ delegated = 2

\* ------------------------------------------------------------------------
\* The memoized local listing.

\* The directories the local-store provider scans in a turn.
Scans == SolverChoosePackageVersion(Asked).scans

\* C28 - Memoized local listing: within one offline solver instance, the
\* online attempt that reuses it included, a directory is scanned only for a
\* package that has no stored entry, and once; the scan result, empty or not,
\* is stored; a stored package is listed from its entry, newest first,
\* without a scan; a stored entry is never changed or removed.
MemoizedListing ==
    [][/\ pc \in {"choose", "deps", "fallback"} =>
            \A p \in DOMAIN memo : p \in DOMAIN memo' /\ memo'[p] = memo[p]
       /\ (ProviderAsked /\ attempt = "offline") =>
            /\ \A i \in DOMAIN Scans : Scans[i] \notin DOMAIN memo
            /\ \A i, j \in DOMAIN Scans : Scans[i] = Scans[j] => i = j
            /\ DOMAIN memo' = DOMAIN memo \cup {Scans[i] : i \in DOMAIN Scans}
            /\ \A p \in AskedPkgs :
                  /\ p \in DOMAIN memo'
                  /\ p \notin DOMAIN memo => memo'[p] = ListInstalledVersions(p)
                  /\ LoadInstalledVersionsOf(memo', p).versions = Descending(memo'[p])
                  /\ LoadInstalledVersionsOf(memo', p).scans = <<>>
                  /\ LoadInstalledVersionsOf(memo', p).memo = memo'
       /\ (pc \in {"choose", "deps", "fallback"} /\ ~(ProviderAsked /\ attempt = "offline")) =>
            memo' = memo]_vars

\* C28 witness: the online attempt of progressive mode runs on the instance
\* of the offline attempt, which stored the empty listing of one package and
\* the versions of another.
MemoizedListingWitness ==
    /\ mode = "progressive"
    /\ attempt = "online"
    /\ pc = "deps"
    /\ \E p \in DOMAIN memo : memo[p] = {}
    /\ \E p \in DOMAIN memo : Cardinality(memo[p]) > 1

\* ------------------------------------------------------------------------
\* Progressive mode, the offline attempt succeeding.

\* The offline attempt of a progressive invocation on ./elm.json is running.
ProgressiveOffline ==
    /\ mode = "progressive"
    /\ attempt = "offline"
    /\ world.root_source = "file"
    /\ pc \in {"choose", "deps"}

\* C29 - In progressive mode without a package argument, a successful
\* offline attempt ends the invocation: the online solver is not constructed,
\* no HTTP request is made, the versions-cache file and the online cache are
\* left alone, and the output is the offline result.
OfflineSuccessEnds ==
    [][ProgressiveOffline =>
          /\ http_log = <<>> /\ http_log' = <<>>
          /\ versions_file' = versions_file
          /\ online_cache' = online_cache
          /\ offline_result'.kind = "Ok" =>
                /\ pc' = "done"
                /\ attempt' = "offline"
                /\ result' = offline_result'
                /\ online_result' = NoResult
                /\ pc' # "fallback"]_vars

\* C29 witness: a progressive invocation ended on the solution of its
\* offline attempt, a versions-cache file being there and the network up.
OfflineSuccessEndsWitness ==
    /\ pc = "done"
    /\ mode = "progressive"
    /\ attempt = "offline"
    /\ world.root_source = "file"
    /\ world.net = "up"
    /\ result.kind = "Ok"
    /\ result = offline_result
    /\ versions_file # <<>>
    /\ http_log = <<>>

\* ------------------------------------------------------------------------
\* A manifest is fetched once.

\* The remote provider is about to retrieve the manifest of pending.
OnlineRetrieval == pc = "deps" /\ attempt = "online" /\ pending[1] # RootPkg

\* C30 - A manifest is fetched over HTTP at most once: a retrieval that
\* succeeds over HTTP leaves the manifest in the cache, the cache never loses
\* a manifest, and the retrieval of a cached manifest makes no request and
\* gives the dependencies of that manifest.
FetchedOnce ==
    [][/\ elm_json_cache \subseteq elm_json_cache'
       /\ (OnlineRetrieval /\ pending \in elm_json_cache) =>
            /\ http_log' = http_log
            /\ SolverGetDependencies(pending[1], pending[2]).ok
            /\ SolverGetDependencies(pending[1], pending[2]).deps
                  = Manifest(pending[1], pending[2])
            /\ pc' = "done" => result'.kind # "ErrorRetrievingDependencies"
       /\ (OnlineRetrieval /\ http_log' # http_log) =>
            /\ pending \notin elm_json_cache
            /\ http_log' = Append(http_log, Request("elm.json", pending[1], pending[2]))
            /\ SolverGetDependencies(pending[1], pending[2]).ok => pending \in elm_json_cache']_vars

\* C30 witness: an online resolve has retrieved a manifest that an earlier
\* invocation fetched, and made no request for it.
FetchedOnceWitness ==
    /\ pc = "choose"
    /\ attempt = "online"
    /\ \E pv \in added \cap elm_json_cache \cap (Pkgs \X Versions) :
          /\ pv[2] \notin world.installed[pv[1]]
          /\ \A i \in DOMAIN http_log : http_log[i] # Request("elm.json", pv[1], pv[2])
====
